---- MODULE Spec2Model ----
(***************************************************************************)
(* A model of archiver/scanner.py: the staleness walk                      *)
(* (was_modified_after), the per-directory pipeline (process_dir) with its *)
(* external tools (tar, gsutil hash / ls -L / cp), and the driver (main)   *)
(* that submits one process_dir task per home directory to a thread pool.  *)
(***************************************************************************)
EXTENDS Integers, Sequences, FiniteSets, TLC

(***************************************************************************)
(* Bounds of the model.                                                    *)
(***************************************************************************)
\* timestamps are 0..MaxTime; the cutoff and every mtime are drawn from them
MaxTime == 1
\* number of entries listed directly under a home directory
MaxEntries == 2
\* number of times the script is run
MaxRuns == 2

Times == 0..MaxTime

(***************************************************************************)
(* Python's None and an Optional value: None is <<>>, a value x is <<x>>.  *)
(***************************************************************************)
None == <<>>
Some(x) == <<x>>

\* `x in lst` for a Python list
InList(x, lst) == \E i \in DOMAIN lst : lst[i] = x

(***************************************************************************)
(* The file system.  A directory entry is a record                         *)
(*   name  - the entry's name (Path.name)                                  *)
(*   kind  - "file" a regular file, "dir" a directory, "linkfile" a        *)
(*           symbolic link to a regular file, "linkdir" a symbolic link to *)
(*           a directory, "special" anything else (fifo, dangling link)    *)
(*   mtime, size - what stat() reports; stat() follows symbolic links, so  *)
(*           for a link these are the target's                             *)
(*   kids  - what iterdir() lists, in listing order (for a link to a       *)
(*           directory, the target's entries)                              *)
(***************************************************************************)
Entry(n, k, m, s, ks) == [name |-> n, kind |-> k, mtime |-> m, size |-> s, kids |-> ks]

\* Path.is_file() and Path.is_dir() follow symbolic links
is_file(c) == c.kind \in {"file", "linkfile"}
is_dir(c) == c.kind \in {"dir", "linkdir"}

(***************************************************************************)
(* was_modified_after(path, after, ignored_filenames): the pair            *)
(* (True, None) or (False, size), as the record [modified, size].          *)
(* WalkEntries is the for loop over path.iterdir(), from index i on, with  *)
(* total_size accumulated so far.                                          *)
(***************************************************************************)
RECURSIVE WalkEntries(_, _, _, _, _)
RECURSIVE was_modified_after(_, _, _)

FreshMutant(mtime, after_ts) == mtime > after_ts
\* cstat.st_mtime >= after_ts
Fresh(mtime, after_ts) == mtime >= after_ts

\* the loop as the docstring describes it: an ignored name is passed over
RECURSIVE WalkEntriesMutant(_, _, _, _, _)
WalkEntriesMutant(kids, i, total_size, after, ignored_filenames) ==
  IF i > Len(kids)
  THEN [modified |-> FALSE, size |-> Some(total_size)]
  ELSE LET c == kids[i] IN
       IF InList(c.name, ignored_filenames)
       THEN WalkEntriesMutant(kids, i + 1, total_size, after, ignored_filenames)
       ELSE IF is_file(c)
       THEN IF Fresh(c.mtime, after)
            THEN [modified |-> TRUE, size |-> None]
            ELSE WalkEntriesMutant(kids, i + 1, total_size + c.size, after, ignored_filenames)
       ELSE IF is_dir(c)
       THEN LET r == was_modified_after(c, after, ignored_filenames) IN
            IF r.modified
            THEN [modified |-> TRUE, size |-> None]
            ELSE WalkEntriesMutant(kids, i + 1, total_size + r.size[1], after, ignored_filenames)
       ELSE WalkEntriesMutant(kids, i + 1, total_size, after, ignored_filenames)

WalkEntries(kids, i, total_size, after, ignored_filenames) ==
  IF i > Len(kids)
  THEN [modified |-> FALSE, size |-> Some(total_size)]
  ELSE LET c == kids[i] IN
       IF InList(c.name, ignored_filenames)
       THEN [modified |-> TRUE, size |-> None]
       ELSE IF is_file(c)
       THEN IF Fresh(c.mtime, after)
            THEN [modified |-> TRUE, size |-> None]
            ELSE WalkEntries(kids, i + 1, total_size + c.size, after, ignored_filenames)
       ELSE IF is_dir(c)
       THEN LET r == was_modified_after(c, after, ignored_filenames) IN
            IF r.modified
            THEN [modified |-> TRUE, size |-> None]
            ELSE WalkEntries(kids, i + 1, total_size + r.size[1], after, ignored_filenames)
       ELSE WalkEntries(kids, i + 1, total_size, after, ignored_filenames)

was_modified_after(path, after, ignored_filenames) ==
  WalkEntries(path.kids, 1, path.size, after, ignored_filenames)

(***************************************************************************)
(* The trees the model draws its directories from.                         *)
(***************************************************************************)
\* the default of --notice-file-name
DefaultNotice == "WHERE-ARE-MY-FILES.txt"
EntryNames == {"a.txt", "b", DefaultNotice}
\* a --notice-file-name with a wildcard in it
GlobNotice == "*.txt"
NoticeNames == {DefaultNotice, "README", GlobNotice}
\* sizes in units of 10^9 bytes
FileSizes == {1, 98}
DirSizes == {1}

\* the sequences of at most k entries of S with pairwise different names
RECURSIVE DistinctSeqs(_, _)
DistinctSeqs(S, k) ==
  IF k = 0 THEN {<<>>}
  ELSE LET P == DistinctSeqs(S, k - 1) IN
       P \cup { Append(p[1], p[2]) :
                  p \in { q \in P \X S : \A i \in DOMAIN q[1] : q[1][i].name # q[2].name } }

\* what a directory under a home directory holds: nothing or one entry
SubLeaves ==
  { Entry(n, "file", m, 1, <<>>) : n \in {"a.txt", DefaultNotice}, m \in Times }
  \cup { Entry("a.txt", "linkfile", m, 1, <<>>) : m \in Times }

Leaves ==
  { Entry(n, "file", m, s, <<>>) : n \in EntryNames, m \in Times, s \in FileSizes }
  \cup { Entry(n, "linkfile", m, 1, <<>>) : n \in EntryNames, m \in Times }
  \cup { Entry(n, "special", 0, 1, <<>>) : n \in EntryNames }

SubDirs ==
  { Entry(n, "dir", m, s, ks) :
      n \in {"b", DefaultNotice}, m \in Times, s \in DirSizes,
      ks \in DistinctSeqs(SubLeaves, 1) }
  \cup { Entry(n, "linkdir", 0, s, ks) :
      n \in {"b", DefaultNotice}, s \in DirSizes, ks \in DistinctSeqs(SubLeaves, 1) }

\* a home directory p, named d
Trees(d) ==
  { Entry(d, "dir", 0, s, ks) : s \in DirSizes, ks \in DistinctSeqs(Leaves \cup SubDirs, MaxEntries) }

(***************************************************************************)
(* archive_dir: what tar --directory=p --sort=name --create . writes.  The *)
(* members are sorted by name, so the listing order does not show: the     *)
(* archive is the set of its members.  A symbolic link is stored as a link *)
(* (tar does not follow it); every member matching --exclude is left out,  *)
(* at any depth.  tar reads --exclude=N as a shell pattern, while Python's *)
(* `c.name in ignored_filenames` compares the names as they are.           *)
(***************************************************************************)
\* tar's pattern match, on the names of the model: a name without wildcards matches
\* itself, *.txt matches every name that ends in .txt
Matches(pattern, name) ==
  \/ pattern = name
  \/ pattern = GlobNotice /\ name \in {"a.txt", DefaultNotice}

\* [f'--exclude={ignored_file}' for ignored_file in ignored_filenames]
Excluded(name, ignored_filenames) ==
  \E i \in DOMAIN ignored_filenames : Matches(ignored_filenames[i], name)

RECURSIVE TarMembers(_, _)
TarMembers(kids, ignored_filenames) ==
  { IF kids[i].kind = "dir"
    THEN [name |-> kids[i].name, kind |-> "dir", mtime |-> kids[i].mtime,
          size |-> 0, members |-> TarMembers(kids[i].kids, ignored_filenames)]
    ELSE IF kids[i].kind = "file"
    THEN [name |-> kids[i].name, kind |-> "file", mtime |-> kids[i].mtime,
          size |-> kids[i].size, members |-> {}]
    ELSE [name |-> kids[i].name,
          kind |-> IF kids[i].kind = "special" THEN "special" ELSE "symlink",
          mtime |-> 0, size |-> 0, members |-> {}]
    : i \in { j \in DOMAIN kids : ~Excluded(kids[j].name, ignored_filenames) } }

\* the archive of directory p: the member "." and what is under it
TarArchive(p, ignored_filenames) ==
  [mtime |-> p.mtime, members |-> TarMembers(p.kids, ignored_filenames)]

\* target_file.stat().st_size: a header per member and the files' bytes
RECURSIVE MembersSize(_)
MembersSize(ms) ==
  IF ms = {} THEN 0
  ELSE LET m == CHOOSE x \in ms : TRUE IN
       1 + m.size + MembersSize(m.members) + MembersSize(ms \ {m})

ArchiveSize(archive) == 1 + MembersSize(archive.members)

\* gsutil hash -m: the digest of a file's content; equal contents, equal digests
Md5(content) == [md5 |-> content]

\* an object somebody else put at the target address
OtherObject == [mtime |-> 0, members |-> {[name |-> "other", kind |-> "file", mtime |-> 0, size |-> 1, members |-> {}]}]

(***************************************************************************)
(* File system operations of the delete step.                              *)
(***************************************************************************)
\* the entries of a listing without the one named n
RECURSIVE WithoutName(_, _)
WithoutName(kids, n) ==
  IF kids = <<>> THEN <<>>
  ELSE IF Head(kids).name = n THEN WithoutName(Tail(kids), n)
  ELSE <<Head(kids)>> \o WithoutName(Tail(kids), n)

ChildNamed(p, n) == p.kids[CHOOSE i \in DOMAIN p.kids : p.kids[i].name = n]
ChildNames(p) == { p.kids[i].name : i \in DOMAIN p.kids }

\* open(p / notice_file_name, 'w') and write: the file is created or truncated
WriteFile(p, n, now) ==
  [p EXCEPT !.kids = WithoutName(p.kids, n) \o <<Entry(n, "file", now, 1, <<>>)>>,
            !.mtime = now]

\* os.remove(subchild) or shutil.rmtree(subchild): the entry is gone
RemoveChild(p, n, now) ==
  [p EXCEPT !.kids = WithoutName(p.kids, n), !.mtime = now]

(***************************************************************************)
(* State.                                                                  *)
(***************************************************************************)
HomeNames == {"userA", "userB"}

VARIABLES
  \* one call of was_modified_after (SpecWalk)
  wpath,             \* its argument path (the tree under it)
  wafter,            \* its argument after
  wignored,          \* its argument ignored_filenames
  wresult,           \* what the call returned, None before it has returned
  \* the world
  fs,                \* fs[d]: the home directory root_dir / d
  remote,            \* remote[o]: md5 of the object at address o, None if there is none
  \* main
  user,              \* args.user
  notice_file_name,  \* args.notice_file_name
  ignored_filenames, \* main's ignored_filenames
  cutoff_date,       \* main's cutoff_date (taken to be the same in every run)
  delete,            \* args.delete
  mainpc,            \* where main is
  collected,         \* the futures as_completed has yielded
  counts,            \* active_count, inactive_count, inactive_space, inactive_compressed_space
  status,            \* the exit status main has settled on, None while it has not
  run,               \* how many times the script has been started
  \* process_dir(d), one task per directory
  pc,                \* pc[d]: where the task is
  dirsize,           \* dirsize[d]
  tmpdir,            \* tmpdir[d]: the temporary directory of archive_dir exists
  target_file,       \* target_file[d]: the archive in the temporary directory, None if there is none
  local_md5,         \* local_md5[d], None while unassigned
  remote_md5,        \* remote_md5[d]: None while unassigned, else Some(what md5sum_gcs returned)
  listing,           \* listing[d]: the names p.iterdir() has still to yield in the delete loop
  result,            \* result[d]: the dict process_dir returned, None if none
  exc,               \* exc[d]: the exception the task ended with, None if none
  out,               \* out[d]: what process_dir printed for d in this run
  \* history, read by the properties only
  fs0,               \* fs before the first run
  remote0,           \* remote before the first run
  startfs,           \* fs when the current run started
  uploads,           \* uploads[d]: the gsutil cp calls for d that succeeded, over all runs
  failed             \* failed[d]: which of tar, hash, cp exited non-zero for d in this run

walkvars == <<wpath, wafter, wignored, wresult>>
worldvars == <<fs, remote>>
mainvars == <<user, notice_file_name, ignored_filenames, cutoff_date, delete, mainpc,
              collected, counts, status, run>>
taskvars == <<pc, dirsize, tmpdir, target_file, local_md5, remote_md5, listing, result, exc, out>>
histvars == <<fs0, remote0, startfs, uploads, failed>>
vars == <<walkvars, worldvars, mainvars, taskvars, histvars>>

\* elif int(dirsize) >= 100000000000, in units of 10^9 bytes
SizeCeiling == 100

\* the time of a write made during a run: the latest timestamp
Now == MaxTime

\* ignored_filenames = [args.notice_file_name]
IgnoredMutant(notice) == <<DefaultNotice>>
IgnoredFromArgs(notice) == <<notice>>

\* dirs: [root_dir / args.user], or every directory under root_dir
DirsOf(u) == IF u # None THEN {u[1]} ELSE HomeNames

ZeroCounts == [active_count |-> 0, inactive_count |-> 0, inactive_space |-> 0,
               inactive_compressed_space |-> 0]

Result(active, uncompressed, compressed) ==
  [active |-> active, uncompressed_size |-> uncompressed, compressed_size |-> compressed]

(***************************************************************************)
(* How a task ends: process_dir returns or raises.  Either way the with    *)
(* block of archive_dir is left, so the temporary directory is removed     *)
(* with the archive in it, and the locals are gone.                        *)
(***************************************************************************)
TaskEndsMutant(d, newpc, res, e, o) ==
  /\ pc' = [pc EXCEPT ![d] = newpc]
  /\ result' = [result EXCEPT ![d] = res]
  /\ exc' = [exc EXCEPT ![d] = e]
  /\ out' = [out EXCEPT ![d] = o]
  /\ dirsize' = [dirsize EXCEPT ![d] = None]
  /\ local_md5' = [local_md5 EXCEPT ![d] = None]
  /\ remote_md5' = [remote_md5 EXCEPT ![d] = None]
  /\ listing' = [listing EXCEPT ![d] = {}]
  /\ UNCHANGED <<tmpdir, target_file>>

TaskEnds(d, newpc, res, e, o) ==
  /\ pc' = [pc EXCEPT ![d] = newpc]
  /\ result' = [result EXCEPT ![d] = res]
  /\ exc' = [exc EXCEPT ![d] = e]
  /\ out' = [out EXCEPT ![d] = o]
  /\ target_file' = [target_file EXCEPT ![d] = None]
  /\ tmpdir' = [tmpdir EXCEPT ![d] = FALSE]
  /\ dirsize' = [dirsize EXCEPT ![d] = None]
  /\ local_md5' = [local_md5 EXCEPT ![d] = None]
  /\ remote_md5' = [remote_md5 EXCEPT ![d] = None]
  /\ listing' = [listing EXCEPT ![d] = {}]

Returns(d, res, o) == TaskEnds(d, "returned", Some(res), None, o)
Raises(d, type, code, stage, o) ==
  TaskEnds(d, "raised", None, Some([type |-> type, code |-> code, stage |-> stage]), o)

FinishedMutant(d) == TRUE
\* the future of d is done
Finished(d) == pc[d] \in {"returned", "raised"}

(***************************************************************************)
(* main, up to the submission of the tasks.                                *)
(***************************************************************************)
StartRun ==
  /\ mainpc = "off"
  /\ run < MaxRuns
  /\ run' = run + 1
  /\ delete' \in BOOLEAN
  /\ ignored_filenames' = IgnoredFromArgs(notice_file_name)
  /\ mainpc' = "submit"
  /\ collected' = {}
  /\ counts' = ZeroCounts
  /\ status' = None
  /\ pc' = [d \in HomeNames |-> "unsubmitted"]
  /\ result' = [d \in HomeNames |-> None]
  /\ exc' = [d \in HomeNames |-> None]
  /\ out' = [d \in HomeNames |-> <<>>]
  /\ startfs' = fs
  /\ failed' = [d \in HomeNames |-> {}]
  /\ UNCHANGED <<walkvars, worldvars, user, notice_file_name, cutoff_date,
                 dirsize, tmpdir, target_file, local_md5, remote_md5, listing, fs0, remote0, uploads>>

\* pool.submit(process_dir, p, ...), for the directories in any order
Submit(d) ==
  /\ mainpc = "submit"
  /\ d \in DirsOf(user)
  /\ pc[d] = "unsubmitted"
  /\ pc' = [pc EXCEPT ![d] = "walk"]
  /\ mainpc' = IF \A e \in DirsOf(user) \ {d} : pc[e] # "unsubmitted"
               THEN "collect" ELSE "submit"
  /\ UNCHANGED <<walkvars, worldvars, user, notice_file_name, ignored_filenames, cutoff_date,
                 delete, collected, counts, status, run,
                 dirsize, tmpdir, target_file, local_md5, remote_md5, listing, result, exc, out,
                 histvars>>

(***************************************************************************)
(* process_dir(d): the staleness verdict.                                  *)
(***************************************************************************)
VerdictMutant(d) == [modified |-> FALSE, size |-> Some(1)]
\* is_active, dirsize = was_modified_after(p, cutoff_date, ignored_filenames)
Verdict(d) == was_modified_after(fs[d], cutoff_date, ignored_filenames)

\* int(dirsize) >= 100000000000
TooBig(size) == size >= SizeCeiling

WalkActive(d) ==
  /\ pc[d] = "walk"
  /\ Verdict(d).modified
  /\ Returns(d, Result(TRUE, Verdict(d).size, None), <<"Active">>)
  /\ UNCHANGED <<walkvars, worldvars, mainvars, histvars>>

WalkTooBig(d) ==
  /\ pc[d] = "walk"
  /\ ~Verdict(d).modified
  /\ TooBig(Verdict(d).size[1])
  /\ Returns(d, Result(TRUE, Verdict(d).size, None), <<"Too Big">>)
  /\ UNCHANGED <<walkvars, worldvars, mainvars, histvars>>

WalkInactive(d) ==
  /\ pc[d] = "walk"
  /\ ~Verdict(d).modified
  /\ ~TooBig(Verdict(d).size[1])
  /\ pc' = [pc EXCEPT ![d] = "tar"]
  /\ dirsize' = [dirsize EXCEPT ![d] = Verdict(d).size]
  /\ tmpdir' = [tmpdir EXCEPT ![d] = TRUE]
  /\ UNCHANGED <<walkvars, worldvars, mainvars, histvars,
                 target_file, local_md5, remote_md5, listing, result, exc, out>>

\* path.stat(), path.iterdir() or c.stat() raises: the error leaves process_dir
WalkError(d) ==
  /\ pc[d] = "walk"
  /\ Raises(d, "OSError", 1, "walk", <<>>)
  /\ UNCHANGED <<walkvars, worldvars, mainvars, histvars>>

\* target_file = <tmp>/<p.name>.tar.gz, target_object_path = object_prefix/target_file.name
target_object_pathMutant(d) == <<"prefix", "userA", ".tar.gz">>
target_object_path(d) == <<"prefix", fs[d].name, ".tar.gz">>

(***************************************************************************)
(* process_dir(d): the archive and its digests.                            *)
(***************************************************************************)
TarOk(d) ==
  /\ pc[d] = "tar"
  /\ target_file' = [target_file EXCEPT ![d] = Some(TarArchive(fs[d], ignored_filenames))]
  /\ pc' = [pc EXCEPT ![d] = "hash"]
  /\ UNCHANGED <<walkvars, worldvars, mainvars, histvars,
                 dirsize, tmpdir, local_md5, remote_md5, listing, result, exc, out>>

\* tar exits non-zero: archive_dir calls sys.exit(1)
TarFail(d) ==
  /\ pc[d] = "tar"
  /\ failed' = [failed EXCEPT ![d] = @ \cup {"tar"}]
  /\ Raises(d, "SystemExit", 1, "tar", out[d])
  /\ UNCHANGED <<walkvars, worldvars, mainvars, fs0, remote0, startfs, uploads>>

\* local_md5 = md5sum_local(target_file)
HashOk(d) ==
  /\ pc[d] = "hash"
  /\ local_md5' = [local_md5 EXCEPT ![d] = Some(Md5(target_file[d][1]))]
  /\ pc' = [pc EXCEPT ![d] = "query"]
  /\ UNCHANGED <<walkvars, worldvars, mainvars, histvars,
                 dirsize, tmpdir, target_file, remote_md5, listing, result, exc, out>>

\* gsutil hash exits non-zero: check_output raises
HashFail(d) ==
  /\ pc[d] = "hash"
  /\ failed' = [failed EXCEPT ![d] = @ \cup {"hash"}]
  /\ Raises(d, "CalledProcessError", 1, "hash", out[d])
  /\ UNCHANGED <<walkvars, worldvars, mainvars, fs0, remote0, startfs, uploads>>

\* remote_md5 = md5sum_gcs(target_object_path), gsutil ls -L having answered
QueryOk(d) ==
  /\ pc[d] = "query"
  /\ remote_md5' = [remote_md5 EXCEPT ![d] = Some(remote[target_object_path(d)])]
  /\ pc' = [pc EXCEPT ![d] = "reconcile"]
  /\ UNCHANGED <<walkvars, worldvars, mainvars, histvars,
                 dirsize, tmpdir, target_file, local_md5, listing, result, exc, out>>

\* gsutil ls -L exits non-zero or prints no hash: except Exception: return None
QueryFail(d) ==
  /\ pc[d] = "query"
  /\ remote_md5' = [remote_md5 EXCEPT ![d] = Some(None)]
  /\ pc' = [pc EXCEPT ![d] = "reconcile"]
  /\ UNCHANGED <<walkvars, worldvars, mainvars, histvars,
                 dirsize, tmpdir, target_file, local_md5, listing, result, exc, out>>

(***************************************************************************)
(* process_dir(d): the reconciliation.                                     *)
(***************************************************************************)
\* if remote_md5 is None / elif local_md5 != remote_md5 / else
Branch(local, rem) ==
  IF rem = None THEN "upload"
  ELSE IF local # rem THEN "conflict"
  ELSE "validated"

DeleteStepMutant(del) == TRUE
\* if delete:
DeleteStep(del) == del

\* after the reconciliation: the delete step, or the return
Proceed(d, o) ==
  IF DeleteStep(delete)
  THEN /\ pc' = [pc EXCEPT ![d] = "notice"]
       /\ out' = [out EXCEPT ![d] = o]
       /\ UNCHANGED <<dirsize, tmpdir, target_file, local_md5, remote_md5, listing, result, exc>>
  ELSE Returns(d, Result(FALSE, dirsize[d], Some(ArchiveSize(target_file[d][1]))), o)

check_callMutant(returncode) == FALSE
\* subprocess.check_call, check_output: a non-zero exit raises CalledProcessError
check_call(returncode) == returncode # 0

\* upload_to_gcs: md5sum_local, then gsutil cp with Content-MD5
UploadOk(d) ==
  /\ pc[d] = "reconcile"
  /\ Branch(local_md5[d], remote_md5[d][1]) = "upload"
  /\ remote' = [remote EXCEPT ![target_object_path(d)] = Some(Md5(target_file[d][1]))]
  /\ uploads' = [uploads EXCEPT ![d] = @ + 1]
  /\ Proceed(d, Append(out[d], "Uploaded!"))
  /\ UNCHANGED <<walkvars, fs, mainvars, fs0, remote0, startfs, failed>>

UploadHashFail(d) ==
  /\ pc[d] = "reconcile"
  /\ Branch(local_md5[d], remote_md5[d][1]) = "upload"
  /\ failed' = [failed EXCEPT ![d] = @ \cup {"hash"}]
  /\ Raises(d, "CalledProcessError", 1, "upload_hash", out[d])
  /\ UNCHANGED <<walkvars, worldvars, mainvars, fs0, remote0, startfs, uploads>>

\* gsutil cp exits non-zero: check_call raises, the object is not written
UploadCpFail(d) ==
  /\ pc[d] = "reconcile"
  /\ Branch(local_md5[d], remote_md5[d][1]) = "upload"
  /\ failed' = [failed EXCEPT ![d] = @ \cup {"cp"}]
  /\ IF check_call(1)
     THEN Raises(d, "CalledProcessError", 1, "cp", out[d])
     ELSE Proceed(d, Append(out[d], "Uploaded!"))
  /\ UNCHANGED <<walkvars, worldvars, mainvars, fs0, remote0, startfs, uploads>>

\* sys.exit(-1)
Conflict(d) ==
  /\ pc[d] = "reconcile"
  /\ Branch(local_md5[d], remote_md5[d][1]) = "conflict"
  /\ Raises(d, "SystemExit", -1, "conflict", Append(out[d], "Remote object exists and does not match"))
  /\ UNCHANGED <<walkvars, worldvars, mainvars, histvars>>

Validated(d) ==
  /\ pc[d] = "reconcile"
  /\ Branch(local_md5[d], remote_md5[d][1]) = "validated"
  /\ Proceed(d, Append(out[d], "Validated!"))
  /\ UNCHANGED <<walkvars, worldvars, mainvars, histvars>>

(***************************************************************************)
(* process_dir(d): the delete step.                                        *)
(***************************************************************************)
WriteNotice(d) ==
  /\ pc[d] = "notice"
  /\ fs' = [fs EXCEPT ![d] = WriteFile(@, notice_file_name, Now)]
  /\ out' = [out EXCEPT ![d] = Append(@, "Notice printed!")]
  /\ listing' = [listing EXCEPT ![d] = ChildNames(fs'[d])]
  /\ pc' = [pc EXCEPT ![d] = "remove"]
  /\ UNCHANGED <<walkvars, remote, mainvars, histvars,
                 dirsize, tmpdir, target_file, local_md5, remote_md5, result, exc>>

\* open(notice_file, 'w') raises
NoticeFail(d) ==
  /\ pc[d] = "notice"
  /\ Raises(d, "OSError", 1, "notice", out[d])
  /\ UNCHANGED <<walkvars, worldvars, mainvars, histvars>>

\* if subchild.name in ignored_filenames: continue
Skip(name, ignored) == InList(name, ignored)

LoopVars == <<walkvars, remote, mainvars, histvars,
              dirsize, tmpdir, target_file, local_md5, remote_md5, result, exc, out, pc>>

RemoveSkip(d) ==
  /\ pc[d] = "remove"
  /\ \E n \in listing[d] :
       /\ Skip(n, ignored_filenames)
       /\ listing' = [listing EXCEPT ![d] = @ \ {n}]
  /\ UNCHANGED <<LoopVars, fs>>

\* shutil.rmtree(subchild)
RemoveTree(d) ==
  /\ pc[d] = "remove"
  /\ \E n \in listing[d] :
       /\ ~Skip(n, ignored_filenames)
       /\ ChildNamed(fs[d], n).kind = "dir"
       /\ fs' = [fs EXCEPT ![d] = RemoveChild(@, n, Now)]
       /\ listing' = [listing EXCEPT ![d] = @ \ {n}]
  /\ UNCHANGED LoopVars

\* os.remove(subchild)
RemoveFile(d) ==
  /\ pc[d] = "remove"
  /\ \E n \in listing[d] :
       /\ ~Skip(n, ignored_filenames)
       /\ ~is_dir(ChildNamed(fs[d], n))
       /\ fs' = [fs EXCEPT ![d] = RemoveChild(@, n, Now)]
       /\ listing' = [listing EXCEPT ![d] = @ \ {n}]
  /\ UNCHANGED LoopVars

\* shutil.rmtree refuses a symbolic link (for which is_dir() is True), and any
\* removal can fail with an OSError: the error leaves process_dir
RemoveFail(d) ==
  /\ pc[d] = "remove"
  /\ \E n \in listing[d] : ~Skip(n, ignored_filenames)
  /\ Raises(d, "OSError", 1, "remove", out[d])
  /\ UNCHANGED <<walkvars, worldvars, mainvars, histvars>>

Deleted(d) ==
  /\ pc[d] = "remove"
  /\ listing[d] = {}
  /\ Returns(d, Result(FALSE, dirsize[d], Some(ArchiveSize(target_file[d][1]))),
             Append(out[d], "-> Deleted!"))
  /\ UNCHANGED <<walkvars, worldvars, mainvars, histvars>>

(***************************************************************************)
(* main: for future in as_completed(futures), the summary, the exit.       *)
(***************************************************************************)
AddResultMutant(c, r) == [c EXCEPT !.active_count = @ + 1]
\* the body of the as_completed loop
AddResult(c, r) ==
  IF r.active
  THEN [c EXCEPT !.active_count = @ + 1]
  ELSE [c EXCEPT !.inactive_count = @ + 1,
                 !.inactive_space = @ + r.uncompressed_size[1],
                 !.inactive_compressed_space = @ + r.compressed_size[1]]

CollectResult(d) ==
  /\ mainpc = "collect"
  /\ d \in DirsOf(user) \ collected
  /\ pc[d] = "returned"
  /\ collected' = collected \cup {d}
  /\ counts' = AddResult(counts, result[d][1])
  /\ UNCHANGED <<walkvars, worldvars, user, notice_file_name, ignored_filenames, cutoff_date,
                 delete, mainpc, status, run, taskvars, histvars>>

\* future.result() raises what the task raised, and nothing in main catches it:
\* the process will exit with the SystemExit's code (as the 8 bits a shell sees), or
\* with 1 after the traceback of any other exception
CollectRaises(d) ==
  /\ mainpc = "collect"
  /\ d \in DirsOf(user) \ collected
  /\ pc[d] = "raised"
  /\ mainpc' = "aborted"
  /\ status' = Some(exc[d][1].code % 256)
  /\ UNCHANGED <<walkvars, worldvars, user, notice_file_name, ignored_filenames, cutoff_date,
                 delete, collected, counts, run, taskvars, histvars>>

PrintSummary ==
  /\ mainpc = "collect"
  /\ collected = DirsOf(user)
  /\ mainpc' = "printed"
  /\ status' = Some(0)
  /\ UNCHANGED <<walkvars, worldvars, user, notice_file_name, ignored_filenames, cutoff_date,
                 delete, collected, counts, run, taskvars, histvars>>

\* the interpreter exits once the pool's worker threads have finished
Exit ==
  /\ mainpc \in {"printed", "aborted"}
  /\ \A d \in DirsOf(user) : Finished(d)
  /\ mainpc' = "off"
  /\ UNCHANGED <<walkvars, worldvars, user, notice_file_name, ignored_filenames, cutoff_date,
                 delete, collected, counts, status, run, taskvars, histvars>>

(***************************************************************************)
(* The specifications.                                                     *)
(***************************************************************************)
Task(d) ==
  \/ WalkActive(d) \/ WalkTooBig(d) \/ WalkInactive(d) \/ WalkError(d)
  \/ TarOk(d) \/ TarFail(d) \/ HashOk(d) \/ HashFail(d)
  \/ QueryOk(d) \/ QueryFail(d)
  \/ UploadOk(d) \/ UploadHashFail(d) \/ UploadCpFail(d) \/ Conflict(d) \/ Validated(d)
  \/ WriteNotice(d) \/ NoticeFail(d)
  \/ RemoveSkip(d) \/ RemoveTree(d) \/ RemoveFile(d) \/ RemoveFail(d) \/ Deleted(d)

Next ==
  \/ StartRun
  \/ \E d \in HomeNames : Submit(d)
  \/ \E d \in HomeNames : Task(d)
  \/ \E d \in HomeNames : CollectResult(d)
  \/ \E d \in HomeNames : CollectRaises(d)
  \/ PrintSummary
  \/ Exit

NoWalk ==
  /\ wpath = Entry("userA", "dir", 0, 1, <<>>)
  /\ wafter = 0
  /\ wignored = <<>>
  /\ wresult = None

InitRest ==
  /\ fs0 = fs
  /\ remote0 = remote
  /\ startfs = fs
  /\ notice_file_name \in NoticeNames
  /\ ignored_filenames = <<>>
  /\ cutoff_date \in Times
  /\ delete = FALSE
  /\ mainpc = "off"
  /\ collected = {}
  /\ counts = ZeroCounts
  /\ status = None
  /\ run = 0
  /\ pc = [d \in HomeNames |-> "unsubmitted"]
  /\ dirsize = [d \in HomeNames |-> None]
  /\ tmpdir = [d \in HomeNames |-> FALSE]
  /\ target_file = [d \in HomeNames |-> None]
  /\ local_md5 = [d \in HomeNames |-> None]
  /\ remote_md5 = [d \in HomeNames |-> None]
  /\ listing = [d \in HomeNames |-> {}]
  /\ result = [d \in HomeNames |-> None]
  /\ exc = [d \in HomeNames |-> None]
  /\ out = [d \in HomeNames |-> <<>>]
  /\ uploads = [d \in HomeNames |-> 0]
  /\ failed = [d \in HomeNames |-> {}]

RemoteSeeds == {None, Some(Md5(OtherObject))}
ObjectPaths == { <<"prefix", d, ".tar.gz">> : d \in HomeNames }

\* the home directories of a run over every directory under root_dir
HomeLeaves ==
  { Entry("a.txt", "file", m, 1, <<>>) : m \in {0, MaxTime} }
  \cup { Entry("a.txt", "file", 0, 99, <<>>), Entry("b", "dir", 0, 1, <<>>) }
HomeTrees(d) ==
  { Entry(d, "dir", 0, 1, ks) : ks \in DistinctSeqs(HomeLeaves, 1) }

\* python scanner.py root_dir days_ago object_prefix [--delete] [--notice-file-name N]
Init ==
  /\ NoWalk
  /\ user = None
  /\ fs \in [HomeNames -> UNION { HomeTrees(d) : d \in HomeNames }]
  /\ \A d \in HomeNames : fs[d].name = d
  /\ remote \in [ObjectPaths -> RemoteSeeds]
  /\ InitRest
  /\ notice_file_name = DefaultNotice
  /\ cutoff_date = MaxTime

Spec == Init /\ [][Next]_vars

\* ... --user userA: one directory
UserEntries ==
  { Entry("a.txt", "file", m, s, <<>>) : m \in Times, s \in FileSizes }
  \cup { Entry(DefaultNotice, "file", 0, 1, <<>>) }
  \cup { Entry("b", "dir", m, 1, ks) : m \in {0}, ks \in DistinctSeqs({ Entry("a.txt", "file", t, 1, <<>>) : t \in Times }
                                                           \cup { Entry(DefaultNotice, "file", 0, 1, <<>>) }, 1) }
  \cup { Entry("c", k, 0, 1, <<>>) : k \in {"linkfile", "linkdir", "special"} }
UserTrees(d) ==
  { Entry(d, "dir", 0, 1, ks) : ks \in DistinctSeqs(UserEntries, MaxEntries) }

InitUser ==
  /\ NoWalk
  /\ user = Some("userA")
  /\ fs \in [HomeNames -> UserTrees("userA") \cup {Entry("userB", "dir", 0, 1, <<>>)}]
  /\ \A d \in HomeNames : fs[d].name = d
  /\ remote \in [ObjectPaths -> RemoteSeeds]
  /\ \A o \in ObjectPaths : o[2] # "userA" => remote[o] = None
  /\ InitRest

SpecUser == InitUser /\ [][Next]_vars

(***************************************************************************)
(* SpecWalk: one call of was_modified_after on any tree.                   *)
(***************************************************************************)
InitWalk ==
  /\ wpath \in Trees("userA")
  /\ wafter \in Times
  /\ wignored \in { IgnoredFromArgs(n) : n \in NoticeNames }
  /\ wresult = None
  /\ user = None
  /\ fs = [d \in HomeNames |-> Entry(d, "dir", 0, 1, <<>>)]
  /\ remote = [o \in ObjectPaths |-> None]
  /\ InitRest
  /\ notice_file_name = DefaultNotice
  /\ cutoff_date = 0

CallWalk ==
  /\ wresult = None
  /\ wresult' = Some(was_modified_after(wpath, wafter, wignored))
  /\ UNCHANGED <<wpath, wafter, wignored, worldvars, mainvars, taskvars, histvars>>

NextWalk == CallWalk

SpecWalk == InitWalk /\ [][NextWalk]_vars

(***************************************************************************)
(* Properties of was_modified_after (SpecWalk).                            *)
(***************************************************************************)
Active == [modified |-> TRUE, size |-> None]
Inactive(n) == [modified |-> FALSE, size |-> Some(n)]

\* a regular file with mtime >= after somewhere in the tree under p
RECURSIVE HasFreshFile(_, _)
HasFreshFile(p, after) ==
  \E i \in DOMAIN p.kids :
    \/ p.kids[i].kind = "file" /\ p.kids[i].mtime >= after
    \/ p.kids[i].kind = "dir" /\ HasFreshFile(p.kids[i], after)

\* an entry with a name of the list somewhere under p
RECURSIVE HasIgnoredName(_, _)
HasIgnoredName(p, ignored) ==
  \E i \in DOMAIN p.kids :
    \/ InList(p.kids[i].name, ignored)
    \/ HasIgnoredName(p.kids[i], ignored)

\* the tree under p holds regular files and directories only
RECURSIVE OnlyFilesAndDirs(_)
OnlyFilesAndDirs(p) ==
  \A i \in DOMAIN p.kids :
    /\ p.kids[i].kind \in {"file", "dir"}
    /\ OnlyFilesAndDirs(p.kids[i])

\* the size the specification asks for: each directory's own size and the size of
\* every regular file, entries with an ignored name and links not counted
RECURSIVE CountedFrom(_, _, _)
RECURSIVE CountedSize(_, _)
CountedFrom(kids, i, ignored) ==
  IF i > Len(kids) THEN 0
  ELSE CountedFrom(kids, i + 1, ignored)
       + (IF InList(kids[i].name, ignored) THEN 0
          ELSE IF kids[i].kind = "file" THEN kids[i].size
          ELSE IF kids[i].kind = "dir" THEN CountedSize(kids[i], ignored)
          ELSE 0)
CountedSize(p, ignored) == p.size + CountedFrom(p.kids, 1, ignored)

\* the tree under p without the entries that have an ignored name
RECURSIVE StripKids(_, _)
StripKids(kids, ignored) ==
  IF kids = <<>> THEN <<>>
  ELSE IF InList(Head(kids).name, ignored) THEN StripKids(Tail(kids), ignored)
  ELSE <<[Head(kids) EXCEPT !.kids = StripKids(@, ignored)]>> \o StripKids(Tail(kids), ignored)
StripIgnored(p, ignored) == [p EXCEPT !.kids = StripKids(@, ignored)]

\* C6: a tree that holds a regular file with mtime >= cutoff (mtime = cutoff included)
\* is reported Active, with no size, wherever the file is and whatever else is there.
C6_FreshFileIsActive ==
  (wresult # None /\ HasFreshFile(wpath, wafter)) => wresult[1] = Active

\* an old file at the top, a file modified exactly at the cutoff one level down, and
\* no ignored name anywhere: Active because of the nested file alone
C6_Witness ==
  /\ wresult = Some(Active)
  /\ ~HasIgnoredName(wpath, wignored)
  /\ \E i, j \in DOMAIN wpath.kids :
       /\ wpath.kids[i].kind = "file" /\ wpath.kids[i].mtime < wafter
       /\ wpath.kids[j].kind = "dir"
       /\ \E k \in DOMAIN wpath.kids[j].kids :
            /\ wpath.kids[j].kids[k].kind = "file"
            /\ wpath.kids[j].kids[k].mtime = wafter

\* C7: a tree whose files are all older than the cutoff is reported Inactive with the
\* sum of the directories' own sizes and the counted files' sizes (stated for trees
\* of regular files and directories).
C7_AllOldIsInactive ==
  (wresult # None /\ OnlyFilesAndDirs(wpath) /\ ~HasFreshFile(wpath, wafter))
    => wresult[1] = Inactive(CountedSize(wpath, wignored))

\* C8: an entry with an ignored name is inert: a tree that is Inactive without such
\* entries is Inactive with them, and with the same size.
C8_IgnoredNameIsInert ==
  wresult # None =>
    LET r0 == was_modified_after(StripIgnored(wpath, wignored), wafter, wignored) IN
    ~r0.modified => wresult[1] = r0

\* the tree under p without its symbolic links and special files
RECURSIVE StripLinkKids(_)
StripLinkKids(kids) ==
  IF kids = <<>> THEN <<>>
  ELSE IF Head(kids).kind \notin {"file", "dir"} THEN StripLinkKids(Tail(kids))
  ELSE <<[Head(kids) EXCEPT !.kids = StripLinkKids(@)]>> \o StripLinkKids(Tail(kids))
StripLinks(p) == [p EXCEPT !.kids = StripLinkKids(@)]

\* C13: symbolic links and special files are excluded from the freshness check and
\* from the size: the verdict and the size of a tree are those of the tree without
\* them (stated for trees with no ignored name in them).
C13_LinksAreExcluded ==
  (wresult # None /\ ~HasIgnoredName(wpath, wignored))
    => wresult[1] = was_modified_after(StripLinks(wpath), wafter, wignored)

(***************************************************************************)
(* Properties of process_dir (SpecUser).                                   *)
(***************************************************************************)
Tasks == DirsOf(user)
Printed(d, line) == InList(line, out[d])
Reconciled(d) == Printed(d, "Uploaded!") \/ Printed(d, "Validated!")
\* the directory was found Inactive and below the ceiling when the run started
Archivable(p) ==
  LET v == was_modified_after(p, cutoff_date, ignored_filenames) IN
  ~v.modified /\ v.size[1] < SizeCeiling
\* the digest of the archive tar builds of p
OwnDigest(p) == Some(Md5(TarArchive(p, ignored_filenames)))
\* the delete step has started for d in this run
DeleteStarted(d) ==
  pc[d] \in {"notice", "remove"} \/ Printed(d, "Notice printed!") \/ fs[d] # startfs[d]

\* C1: the delete step runs only if delete was requested, after the remote digest
\* check has returned, and after the reconciliation of this directory's own archive
\* ended as Uploaded (the check reported no object and the upload succeeded) or as
\* Validated (the reported digest equals the local one); the object at the
\* directory's address then is this directory's archive.
C1_DeleteOnlyAfterReconcile ==
  \A d \in Tasks :
    DeleteStarted(d) =>
      /\ delete
      /\ Reconciled(d)
      /\ remote[target_object_path(d)] = OwnDigest(startfs[d])
      /\ pc[d] \in {"notice", "remove"} =>
           /\ remote_md5[d] # None
           /\ local_md5[d] = OwnDigest(startfs[d])
           /\ Printed(d, "Uploaded!") => remote_md5[d] = Some(None) /\ "cp" \notin failed[d]
           /\ Printed(d, "Validated!") => remote_md5[d] = Some(local_md5[d])

\* entries are being removed after the remote object was validated
C1_Witness ==
  \E d \in Tasks :
    /\ pc[d] = "remove"
    /\ Printed(d, "Validated!")
    /\ Len(fs[d].kids) < Len(startfs[d].kids)

\* C2: from a state where the remote object exists with a digest other than the local
\* archive's, the reconciliation ends as Conflict: no upload, no notice, no deletion.
C2_MismatchEndsAsConflict ==
  [][\A d \in Tasks :
       ( /\ pc[d] = "reconcile" /\ pc'[d] # "reconcile"
         /\ remote[target_object_path(d)] # None
         /\ remote[target_object_path(d)] # local_md5[d] )
       => /\ pc'[d] = "raised"
          /\ exc'[d][1].stage = "conflict"
          /\ remote' = remote
          /\ fs' = fs]_vars

\* C3: md5sum_gcs returns None only when there is no object at the address.
C3_AbsentOnlyIfNoObject ==
  \A d \in Tasks :
    (pc[d] = "reconcile" /\ remote_md5[d] = Some(None))
      => remote[target_object_path(d)] = None

\* C4: runs without delete on an unchanged archivable directory, the remote object
\* absent at first: one upload in all, a run that returns printed Uploaded! (the
\* first run) or Validated!, and no run ends as Conflict.
C4_OneUploadInAll ==
  \A d \in Tasks :
    ( /\ remote0[target_object_path(d)] = None
      /\ fs[d] = fs0[d]
      /\ Archivable(fs0[d])
      /\ ~delete )
    => /\ uploads[d] <= 1
       /\ pc[d] = "returned" =>
            /\ out[d] \in {<<"Uploaded!">>, <<"Validated!">>}
            /\ run = 1 => out[d] = <<"Uploaded!">>
       /\ pc[d] = "raised" => exc[d][1].stage # "conflict"

\* the uploads for d that succeeded before this run
UploadsBefore(d) == uploads[d] - (IF Printed(d, "Uploaded!") THEN 1 ELSE 0)

\* C5: a run with delete, after a run that uploaded the unchanged directory's archive,
\* reconciles as Validated without an upload, writes the notice and deletes: the
\* notice file is the only entry left.
C5_SecondRunValidatesAndDeletes ==
  \A d \in Tasks :
    ( /\ delete
      /\ pc[d] = "returned"
      /\ startfs[d] = fs0[d]
      /\ Archivable(fs0[d])
      /\ UploadsBefore(d) >= 1 )
    => /\ out[d] = <<"Validated!", "Notice printed!", "-> Deleted!">>
       /\ Len(fs[d].kids) = 1
       /\ fs[d].kids[1].name = notice_file_name
       /\ fs[d].kids[1].kind = "file"

\* the delete step of d has completed without error in this run
DeleteCompleted(d) == pc[d] = "returned" /\ Printed(d, "-> Deleted!")

C10_ToolFailureLeavesDirUntouched ==
  \A d \in Tasks :
    failed[d] \cap {"tar", "hash", "cp"} # {} =>
      /\ pc[d] = "raised"
      /\ fs[d] = startfs[d]
      /\ ~Printed(d, "Notice printed!")

\* the upload failed in a run with delete, on a directory with something to delete
C10_Witness ==
  \E d \in Tasks :
    /\ "cp" \in failed[d]
    /\ delete
    /\ pc[d] = "raised"
    /\ fs[d].kids # <<>>

(***************************************************************************)
(* Properties of main (Spec).                                              *)
(***************************************************************************)
\* the script has run and its process has ended
Ended == mainpc = "off" /\ run > 0
Completed(d) == pc[d] \in {"returned", "raised"}

\* C11: a directory's fatal error stays with that directory: when the process has
\* ended every submitted task has run to its end, and the result of every directory
\* that returned one has been collected into the totals, which have been printed.
C11_FailureStaysLocal ==
  Ended =>
    /\ \A d \in Tasks : Completed(d)
    /\ \A d \in Tasks : pc[d] = "returned" => d \in collected
    /\ status = Some(0)

\* C12: the process ends only after every submitted task has completed; if a task
\* ended with a fatal error the exit status is not zero, and if none did the totals
\* of all directories were printed and the exit status is zero.
C12_ExitStatus ==
  Ended =>
    /\ \A d \in Tasks : Completed(d)
    /\ (\E d \in Tasks : pc[d] = "raised") => (status # None /\ status # Some(0))
    /\ (\A d \in Tasks : pc[d] = "returned") => (status = Some(0) /\ collected = Tasks)

\* one directory ended in a conflict (sys.exit(-1), status 255), the other returned
\* its result after main had given up collecting
C12_Witness ==
  /\ Ended
  /\ status = Some(255)
  /\ \E d \in Tasks : pc[d] = "returned" /\ d \notin collected

\* was_modified_after reports the directory as it was when the run started Active
ClassifiedActive(p) == was_modified_after(p, cutoff_date, ignored_filenames).modified
\* process_dir is inside the with block of archive_dir
Archiving(d) == pc[d] \in {"tar", "hash", "query", "reconcile", "notice", "remove"}

\* C14: a directory classified Active is left alone: no temporary directory, no
\* archive, no digest, no upload, no notice, nothing removed, and the result is
\* active with no sizes; the archive is only built for a directory found Inactive.
C14_ActiveLeftAlone ==
  \A d \in Tasks :
    /\ Archiving(d) => ~ClassifiedActive(startfs[d])
    /\ (pc[d] # "unsubmitted" /\ ClassifiedActive(startfs[d])) =>
         /\ fs[d] = startfs[d]
         /\ ~tmpdir[d] /\ target_file[d] = None
         /\ local_md5[d] = None /\ remote_md5[d] = None
         /\ out[d] \in {<<>>, <<"Active">>}
         /\ run = 1 => (uploads[d] = 0 /\ remote[target_object_path(d)] = remote0[target_object_path(d)])
         /\ pc[d] = "returned" =>
              (result[d] = Some(Result(TRUE, None, None)) /\ out[d] = <<"Active">>)
         /\ pc[d] = "raised" => exc[d][1].stage = "walk"

\* one directory was skipped as Active while the other was archived and uploaded
C14_Witness ==
  \E d, e \in Tasks :
    /\ pc[d] = "returned" /\ out[d] = <<"Active">> /\ ClassifiedActive(startfs[d])
    /\ Printed(e, "Uploaded!")

\* the directory is Inactive and at or above the size ceiling
TooBigDir(p) ==
  LET v == was_modified_after(p, cutoff_date, ignored_filenames) IN
  ~v.modified /\ v.size[1] >= SizeCeiling

\* C15: an inactive directory at or above the size ceiling is not archived, uploaded
\* or deleted, its result does not say it is active, and the printed totals count as
\* active only the directories classified Active.
C15_TooBigNotCountedActive ==
  /\ \A d \in Tasks :
       (pc[d] = "returned" /\ TooBigDir(startfs[d])) =>
         /\ fs[d] = startfs[d]
         /\ out[d] = <<"Too Big">>
         /\ ~result[d][1].active
  /\ mainpc = "printed" =>
       counts.active_count = Cardinality({ d \in Tasks : ClassifiedActive(startfs[d]) })

\* C16: whenever process_dir is not running for a directory (it has returned, or
\* raised at any stage, or was not called) the temporary directory and the archive
\* in it do not exist; the archive only ever exists inside the temporary directory.
C16_StagingReleased ==
  \A d \in HomeNames :
    /\ ~Archiving(d) => (~tmpdir[d] /\ target_file[d] = None)
    /\ target_file[d] # None => tmpdir[d]

\* the deletion failed part-way, after the archive had been built and uploaded
C16_Witness ==
  \E d \in Tasks :
    /\ pc[d] = "raised" /\ exc[d][1].stage = "remove"
    /\ fs[d] # startfs[d]
    /\ ~tmpdir[d]

\* the sum of f[d] over the directories of S
RECURSIVE SumOver(_, _)
SumOver(S, f) ==
  IF S = {} THEN 0
  ELSE LET d == CHOOSE x \in S : TRUE IN f[d] + SumOver(S \ {d}, f)

\* the totals of the results of the directories of S, each counted once
Totals(S) ==
  LET act == { d \in S : result[d][1].active }
      ina == S \ act
  IN [active_count |-> Cardinality(act),
      inactive_count |-> Cardinality(ina),
      inactive_space |-> SumOver(ina, [d \in ina |-> result[d][1].uncompressed_size[1]]),
      inactive_compressed_space |-> SumOver(ina, [d \in ina |-> result[d][1].compressed_size[1]])]

\* C17: whatever the interleaving and the order of completion, the counters are the
\* totals of the results collected so far, each directory once, and when the totals
\* are printed every directory has been collected.
C17_CountersAreTotals ==
  /\ mainpc \in {"collect", "printed", "aborted"} => counts = Totals(collected)
  /\ mainpc = "printed" => (collected = Tasks /\ counts = Totals(Tasks))

\* the totals of a run with one active and one archived directory were printed
C17_Witness ==
  /\ mainpc = "printed"
  /\ counts.active_count = 1
  /\ counts.inactive_count = 1
  /\ counts.inactive_compressed_space > 1

\* C18: two tasks of a run never have the same object address, and the object a task
\* uploaded or validated in this run is the archive of its own directory.
C18_PrivateAddresses ==
  /\ \A d, e \in Tasks : d # e => target_object_path(d) # target_object_path(e)
  /\ \A d \in Tasks :
       Reconciled(d) =>
         remote[<<"prefix", d, ".tar.gz">>] = Some(Md5(TarArchive(startfs[d], ignored_filenames)))

\* both tasks uploaded in the same run, and the two objects differ
C18_Witness ==
  /\ \A d \in HomeNames : d \in Tasks /\ Printed(d, "Uploaded!")
  /\ \E d, e \in Tasks : remote[target_object_path(d)] # remote[target_object_path(e)]

(***************************************************************************)
(* Properties of runs that follow a delete (SpecUser).                     *)
(***************************************************************************)
\* an entry with the notice name is somewhere in the tree under p
HasNotice(p) == HasIgnoredName(p, <<notice_file_name>>)

RemovedNames(d) == ChildNames(startfs[d]) \ ChildNames(fs[d])

\* C20: every entry the delete loop has removed, with all that was under it, is a
\* member of the directory's archive, and the remote object is that archive.
C20_RemovedIsArchived ==
  \A d \in Tasks :
    \A n \in RemovedNames(d) :
      LET archive == TarArchive(startfs[d], ignored_filenames) IN
      /\ TarMembers(<<ChildNamed(startfs[d], n)>>, <<>>) \subseteq archive.members
      /\ remote[target_object_path(d)] = Some(Md5(archive))

====
